---- MODULE Spec2Model ----
\* Verification model of the Laziest chain core (kernel/chain.go) and of the
\* helpers it calls (BigInt, Block, Transaction, crypto).
EXTENDS Integers, Sequences, FiniteSets, TLC

\* ------------------------------------------------------------------ bounds
\* Largest number of transactions put in one block by the explored callers.
MaxTxs == 1
\* Largest number of blocks a chain grows to.
MaxChain == 3

\* ------------------------------------------------------- program constants
\* settings: num txs in block
TXsSize == 6

\* The key pairs that sign blocks and transactions; a key pair is named by
\* one number, its private and its public half alike.
Keys == { 1, 2 }
NumKeys == Cardinality(Keys)
NoKey == 0

\* ------------------------------------------------------------- byte strings
\* Byte strings are sequences over 0..255.  Every number the model puts in a
\* byte string stays below 2^31, so four bytes hold it.
RECURSIVE BytesToInt(_, _)
BytesToInt(bs, acc) ==
    IF bs = <<>> THEN acc ELSE BytesToInt(Tail(bs), acc * 256 + Head(bs))

\* A fixed-width (4 byte) big-endian rendering, the shape of a digest.
IntToBytes(n) ==
    << (n \div 16777216) % 256, (n \div 65536) % 256, (n \div 256) % 256, n % 256 >>

\* bytes.Equal
BytesEqual(a, b) == a = b

\* ------------------------------------------------------------------ BigInt
\* LoadInt: big.Int.SetBytes, the big-endian magnitude of the bytes.
LoadInt(bs) == BytesToInt(bs, 0)

\* BigIntT.Inc
Inc(x) == x + 1

\* BigIntT.Cmp
Cmp(x, y) == IF x < y THEN -1 ELSE IF x > y THEN 1 ELSE 0

\* BigIntT.Uint64: the low 64 bits of the magnitude (the sign is dropped).
\* Model integers stay below 2^31, where the reduction modulo 2^64 changes
\* nothing, so only the dropped sign is visible.
Uint64(x) == IF x < 0 THEN 0 - x ELSE x

\* ------------------------------------------------------------------ crypto
\* The genesis back-link: a fixed byte string that is no digest.
ChainID == <<1>>

\* A signature records who signed which digest.
NoSig == [signer |-> NoKey, digest |-> <<>>]
Sign(priv, digest) == [signer |-> priv, digest |-> digest]
PubOf(priv) == priv
Verify(pub, digest, sig) == sig.signer = pub /\ sig.digest = digest

\* PubKey.Equal
PubEqual(p, q) == p = q

\* PubKey.Address: a textual identifier derived from the key; its order is
\* unrelated to the order in which the keys are numbered here.
Address(pub) == (pub * 3) % 7

\* ------------------------------------------------------------ transactions
\* A transaction names its validator and carries a signature by some key.
MakeTx(k) == [validator |-> k, signer |-> k]
TxValidator(tx) == tx.validator
TxIsValid(tx) == tx.signer = tx.validator

\* ------------------------------------------------------------------ blocks
\* The digest of (lastHash, txs): collision-free on the model's domain.  The
\* transaction list is read as a number in base NumKeys+1 and packed below
\* the number the predecessor's link stands for.
RECURSIVE TxsCode(_, _)
TxsCode(txs, acc) ==
    IF txs = <<>> THEN acc
    ELSE TxsCode(Tail(txs), acc * (NumKeys + 1) + TxValidator(Head(txs)))

RECURSIVE Pow(_, _)
Pow(b, e) == IF e = 0 THEN 1 ELSE b * Pow(b, e - 1)

HashBase == Pow(NumKeys + 1, MaxTxs + 1)

HashSum(lastHash, txs) ==
    IntToBytes(LoadInt(lastHash) * HashBase + TxsCode(txs, 0) + 1)

NewBlock(lastHash) ==
    [lastHash |-> lastHash, txs |-> <<>>, validator |-> NoKey,
     sign |-> NoSig, hash |-> <<>>, accepted |-> FALSE]

\* Block.Append: [err, block]
BlockAppend(b, tx) ==
    IF b.accepted THEN [err |-> "already-accepted", block |-> b]
    ELSE IF Len(b.txs) >= TXsSize THEN [err |-> "full", block |-> b]
    ELSE IF ~TxIsValid(tx) THEN [err |-> "invalid-tx", block |-> b]
    ELSE [err |-> "ok", block |-> [b EXCEPT !.txs = Append(@, tx)]]

\* Block.Accept: [err, block]
BlockAccept(b, priv) ==
    IF b.accepted THEN [err |-> "already-accepted", block |-> b]
    ELSE IF priv = NoKey THEN [err |-> "empty", block |-> b]
    ELSE LET h == HashSum(b.lastHash, b.txs) IN
         [err |-> "ok",
          block |-> [b EXCEPT !.hash = h, !.sign = Sign(priv, h),
                              !.validator = PubOf(priv), !.accepted = TRUE]]

BlockHash(b) == b.hash
BlockLastHash(b) == b.lastHash
BlockValidator(b) == b.validator
BlockLength(b) == Len(b.txs)

\* Block.IsValid
BlockIsValid(b) ==
    /\ b.accepted
    /\ \A i \in 1..Len(b.txs) : TxIsValid(b.txs[i])
    /\ b.hash = HashSum(b.lastHash, b.txs)
    /\ Verify(b.validator, b.hash, b.sign)

\* Block.Range(lo, hi): the transactions [lo, hi), or nil (<<>> as an option)
\* when the bounds are out of range.
BlockRange(b, lo, hi) ==
    IF 0 <= lo /\ lo <= hi /\ hi <= Len(b.txs)
    THEN << SubSeq(b.txs, lo + 1, hi) >>
    ELSE <<>>

\* Block.Wrap: the serialized fields.
BlockWrap(b) == << b.lastHash, b.txs, b.validator, b.sign >>

\* ------------------------------------------------------------------- chain
\* A ChainT value: the blocks slice (its elements and its capacity) and the
\* length field.  Index i of the Go slice is position i+1 of `blocks`.
\* Optional objects (a Go interface that may be nil) are sequences of length
\* at most one: <<>> is nil, <<b>> is the block b.
RECURSIVE AppendAll(_, _)
AppendAll(b, txs) ==
    IF txs = <<>> THEN [err |-> "ok", block |-> b]
    ELSE LET r == BlockAppend(b, Head(txs)) IN
         IF r.err # "ok" THEN r ELSE AppendAll(r.block, Tail(txs))

\* NewChain: <<chain>>, or <<>> when construction is aborted.
NewChain(priv, txs) ==
    LET filled == AppendAll(NewBlock(ChainID), txs) IN
    IF filled.err # "ok" THEN <<>>
    ELSE LET acc == BlockAccept(filled.block, priv) IN
         IF acc.err # "ok" THEN <<>>
         ELSE IF ~BlockIsValid(acc.block) THEN <<>>
         ELSE << [blocks |-> << acc.block >>, length |-> 1, cap |-> 1] >>

\* ChainT.Length
ChainLength(c) == c.length

\* LastHash reading index 0 instead of index length-1.
ChainLastHash_First(c) == BlockHash(c.blocks[1])

\* ChainT.LastHash
ChainLastHash(c) ==
    LET last == Uint64(c.length) - 1 IN BlockHash(c.blocks[last + 1])

\* The slot i (from 0) of the slice's backing array: slots at or past the
\* slice's length, below its capacity, hold nil.
Slot(c, i) == IF i < Len(c.blocks) THEN << c.blocks[i + 1] >> ELSE <<>>

\* ChainT.Range: a Go slice expression panics unless lo <= hi <= cap.
ChainRange(c, x, y) ==
    LET lo == Uint64(x)
        hi == Uint64(y)
    IN  IF lo <= hi /\ hi <= c.cap
        THEN [kind |-> "ok", val |-> [i \in 1..(hi - lo) |-> Slot(c, lo + i - 1)]]
        ELSE [kind |-> "panic", val |-> <<>>]

\* append(chain.blocks, block): the backing array doubles when it is full.
GrowCap(c) == IF Len(c.blocks) + 1 > c.cap THEN 2 * c.cap ELSE c.cap

\* Append that stores the block and leaves the length field as it was.
ChainAppend_NoInc(c, obj) ==
    IF obj = <<>> THEN [err |-> "panic", chain |-> c]
    ELSE IF ~BlockIsValid(obj[1]) THEN [err |-> "block is invalid", chain |-> c]
    ELSE IF ~BytesEqual(BlockLastHash(obj[1]), ChainLastHash(c))
    THEN [err |-> "relation is invalid", chain |-> c]
    ELSE [err |-> "ok",
          chain |-> [blocks |-> Append(c.blocks, obj[1]), length |-> c.length,
                     cap |-> GrowCap(c)]]

\* Append without the comparison of the block's link with LastHash().
ChainAppend_NoRelation(c, obj) ==
    IF obj = <<>> THEN [err |-> "panic", chain |-> c]
    ELSE IF ~BlockIsValid(obj[1]) THEN [err |-> "block is invalid", chain |-> c]
    ELSE [err |-> "ok",
          chain |-> [blocks |-> Append(c.blocks, obj[1]), length |-> Inc(c.length),
                     cap |-> GrowCap(c)]]

\* Append that compares the link before it asks the block whether it is valid.
ChainAppend_RelationFirst(c, obj) ==
    IF obj = <<>> THEN [err |-> "panic", chain |-> c]
    ELSE IF ~BytesEqual(BlockLastHash(obj[1]), ChainLastHash(c))
    THEN [err |-> "relation is invalid", chain |-> c]
    ELSE IF ~BlockIsValid(obj[1]) THEN [err |-> "block is invalid", chain |-> c]
    ELSE [err |-> "ok",
          chain |-> [blocks |-> Append(c.blocks, obj[1]), length |-> Inc(c.length),
                     cap |-> GrowCap(c)]]

\* Append that writes the block over the tail instead of after it.
ChainAppend_OverTail(c, obj) ==
    IF obj = <<>> THEN [err |-> "panic", chain |-> c]
    ELSE IF ~BlockIsValid(obj[1]) THEN [err |-> "block is invalid", chain |-> c]
    ELSE IF ~BytesEqual(BlockLastHash(obj[1]), ChainLastHash(c))
    THEN [err |-> "relation is invalid", chain |-> c]
    ELSE [err |-> "ok",
          chain |-> [c EXCEPT !.blocks[Len(c.blocks)] = obj[1]]]

\* ChainT.Append: [err, chain].  A nil interface fails the type assertion
\* obj.(Block), which panics before the nil test is reached, so the nil test
\* and its "block is null" error are never taken.
ChainAppend(c, obj) ==
    IF obj = <<>> THEN [err |-> "panic", chain |-> c]
    ELSE LET block == obj[1] IN
         IF ~BlockIsValid(block)
         THEN [err |-> "block is invalid", chain |-> c]
         ELSE IF ~BytesEqual(BlockLastHash(block), ChainLastHash(c))
         THEN [err |-> "relation is invalid", chain |-> c]
         ELSE [err |-> "ok",
               chain |-> [blocks |-> Append(c.blocks, block),
                          length |-> Inc(c.length),
                          cap |-> GrowCap(c)]]

\* ChainT.Find: the first block with that hash, or nil.
RECURSIVE FindFrom(_, _, _)
FindFrom(c, hash, i) ==
    IF i > Len(c.blocks) THEN <<>>
    ELSE IF BytesEqual(hash, BlockHash(c.blocks[i])) THEN << c.blocks[i] >>
    ELSE FindFrom(c, hash, i + 1)

ChainFind(c, hash) == FindFrom(c, hash, 1)

\* ChainT.IsValid
ChainIsValid(c) ==
    \A i \in 1..Len(c.blocks) :
        /\ BlockIsValid(c.blocks[i])
        /\ BytesEqual(BlockLastHash(c.blocks[i]), ChainLastHash(c))

\* ChainT.Wrap
ChainWrap(c) == [blocks |-> [i \in 1..Len(c.blocks) |-> BlockWrap(c.blocks[i])]]

\* ChainT.LazyInterval.  The loop of the code has no bound of its own; the
\* model gives it one more round than there are blocks, and a walk that uses
\* them all has come back to a block it already visited, so it never returns.
NoReturn == -2

RECURSIVE LazyWalk(_, _, _, _, _)
LazyWalk(c, block, diff, pub, fuel) ==
    IF fuel = 0 THEN NoReturn
    ELSE IF PubEqual(pub, BlockValidator(block)) THEN diff
    ELSE LET objects == BlockRange(block, 0, BlockLength(block)) IN
         IF objects = <<>> THEN -1
         ELSE LET txs == objects[1] IN
              IF \E i \in 1..Len(txs) : PubEqual(pub, TxValidator(txs[i]))
              THEN diff
              ELSE LET object == ChainFind(c, BlockLastHash(block)) IN
                   IF object = <<>> THEN -1
                   ELSE LazyWalk(c, object[1], Inc(diff), pub, fuel - 1)

\* LazyInterval whose counter starts at 1.
LazyInterval_FromOne(c, pub) ==
    LazyWalk(c, ChainFind(c, ChainLastHash(c))[1], 1, pub, Len(c.blocks) + 1)

LazyInterval(c, pub) ==
    LazyWalk(c, ChainFind(c, ChainLastHash(c))[1], 0, pub, Len(c.blocks) + 1)

\* The tied candidates left in the order the scan found them.
SortByAddress_None(list, sorted) == sorted \o list

\* sort.SliceStable by Address: insertion keeps equal addresses in order.
RECURSIVE InsertByAddress(_, _)
InsertByAddress(sorted, p) ==
    IF sorted = <<>> THEN << p >>
    ELSE IF Address(p) < Address(Head(sorted)) THEN << p >> \o sorted
    ELSE << Head(sorted) >> \o InsertByAddress(Tail(sorted), p)

RECURSIVE SortByAddress(_, _)
SortByAddress(list, sorted) ==
    IF list = <<>> THEN sorted
    ELSE SortByAddress(Tail(list), InsertByAddress(sorted, Head(list)))

\* The scan of SelectLazy: [finds, diff] after the loop over validators.
RECURSIVE SelectScan(_, _, _, _)
SelectScan(c, validators, finds, diff) ==
    IF validators = <<>> THEN [finds |-> finds, diff |-> diff]
    ELSE LET pub == Head(validators)
             lazyLevel == LazyInterval(c, pub)
         IN  IF Cmp(lazyLevel, diff) > 0
             THEN SelectScan(c, Tail(validators), << pub >>, lazyLevel)
             ELSE IF Cmp(lazyLevel, diff) = 0
             THEN SelectScan(c, Tail(validators), Append(finds, pub), diff)
             ELSE SelectScan(c, Tail(validators), finds, diff)

\* ChainT.SelectLazy: [kind, val]; finds[0] of an empty slice panics.
SelectLazy(c, validators) ==
    IF \E i \in 1..Len(validators) : LazyInterval(c, validators[i]) = NoReturn
    THEN [kind |-> "hang", val |-> NoKey]
    ELSE LET finds == SelectScan(c, validators, <<>>, 0).finds
             lenpub == Len(finds)
         IN  IF lenpub > 1
             THEN LET sorted == SortByAddress(finds, <<>>)
                      rnum == Uint64(LoadInt(ChainLastHash(c)))
                  IN  [kind |-> "ok", val |-> sorted[(rnum % lenpub) + 1]]
             ELSE IF lenpub = 1 THEN [kind |-> "ok", val |-> finds[1]]
             ELSE [kind |-> "panic", val |-> NoKey]

\* ------------------------------------------------------------ the program
\* blocks, length, capacity: the ChainT value (the slice's elements, the
\* length field, the slice's capacity).  call: the last operation, with its
\* inputs and what it returned.  okAppends: how many Append calls returned
\* no error so far.
VARIABLES blocks, length, capacity, call, okAppends

vars == << blocks, length, capacity, call, okAppends >>

Chain == [blocks |-> blocks, length |-> length, cap |-> capacity]

\* ------------------------------------------------------------------ inputs
\* Transaction lists handed to a block: at most MaxTxs transactions.
RECURSIVE ListsUpTo(_, _)
ListsUpTo(S, n) ==
    IF n = 0 THEN { <<>> }
    ELSE LET shorter == ListsUpTo(S, n - 1) IN
         shorter \cup { Append(l, e) : l \in { s \in shorter : Len(s) = n - 1 }, e \in S }

ValidTxs == { MakeTx(k) : k \in Keys }

\* The transaction lists callers fill blocks with: up to n valid transactions
\* of distinct validators, in the order of the keys.
TxLists(n) ==
    { l \in ListsUpTo(ValidTxs, n) :
        \A i \in 1..Len(l), j \in 1..Len(l) : i < j => l[i].validator < l[j].validator }
\* A transaction whose signature is by another key than its validator.
BadTxs == { [validator |-> k, signer |-> NoKey] : k \in Keys }

\* 32 zero bytes in the code's world: a link that is no block's hash.
ZeroHash == << 0, 0, 0, 0 >>

\* Links a caller builds a block on.
Links(c) == { ChainLastHash(c), BlockHash(c.blocks[1]), ChainID, ZeroHash }

\* A block filled and accepted through the Block API.
Built(link, txs, priv) ==
    BlockAccept(AppendAll(NewBlock(link), txs).block, priv).block

\* Objects handed to Append: nil, accepted blocks, blocks never accepted,
\* and accepted blocks whose validator field names another key.
AppendInputs(c) ==
    { <<>> }
    \cup { << Built(ChainLastHash(c), t, k) >> : t \in TxLists(MaxTxs), k \in Keys }
    \cup { << Built(l, <<>>, k) >> : l \in Links(c), k \in Keys }
    \cup { << AppendAll(NewBlock(l), t).block >> : l \in Links(c), t \in TxLists(1) }
    \cup { << [Built(l, <<>>, k) EXCEPT !.validator = (k % NumKeys) + 1] >> :
             l \in Links(c), k \in Keys }

\* What the last call records about the object it was given.
Describe(obj) ==
    IF obj = <<>> THEN [null |-> TRUE, valid |-> FALSE, link |-> <<>>]
    ELSE [null |-> FALSE, valid |-> BlockIsValid(obj[1]), link |-> BlockLastHash(obj[1])]

RangeArgs == -1..(MaxChain + 2)

\* The public keys offered to SelectLazy: the keys that sign, and one key
\* that never signs anything.
Candidates == Keys \cup { NumKeys + 1 }

\* =================================================================== node
\* The gossip node of network/node.go.  One thread reads each connection
\* (handleConn), one runs the accept loop (Listen) and one is the program
\* that owns the node and calls its methods.  A main-mutex helper is two
\* steps: mainMtx.Lock(), then its body with the deferred Unlock().
MaxRecv == 2
MaxCalls == 2
MaxGossip == 4

ConnSize == 0
MappSize == 1
RetrySize == 2

\* A mutex is free or held by a thread.
Free == 0

\* The sockets of a run; a thread id is the socket a reader serves, or one
\* of the two below.
Conns == { 1, 2 }
NumConns == Cardinality(Conns)
ListenerT == NumConns + 1
UserT == NumConns + 2
Threads == Conns \cup { ListenerT, UserT }

\* Messages: head 1 is the type the program registers a handler for, head 2
\* a type nobody handles.
Heads == { 1, 2 }
Handled == 1
NoMsg == [head |-> 0, nonce |-> 0]
Nonces == { 1, 2 }
Msgs == { [head |-> Handled, nonce |-> n] : n \in Nonces } \cup { [head |-> 2, nonce |-> 1] }
MsgHead(m) == m.head
MsgBytes(m) == << m.head, m.nonce >>
MsgHash(m) == << "hash", MsgBytes(m) >>

\* Handlers: one that only consumes the message, and one for each node
\* method a handler can call on the node it is given: node.Broadcast(msg),
\* node.Connections(), node.Handle(msg.Head(), f), node.Connect(address),
\* node.Disconnect(conn).
Handlers == { "sink", "relay", "peers", "handle", "connect", "disconnect" }

\* The helper entry a handler's call begins at (none: it returns).
HandlerEntry(f) ==
    CASE f = "relay" -> "b_set"
      [] f = "peers" -> "b_cs"
      [] f = "handle" -> "hset"
      [] f = "connect" -> "max"
      [] f = "disconnect" -> "disc"
      [] OTHER -> "r_ret"

\* inMapping that never finds the hash.
InMapping_Never(mapping, hash) == FALSE

\* inMapping: is the hash a key of the map.
InMapping(mapping, hash) == hash \in mapping

\* setMapping: the maps it can leave (the evicted key is whichever the map
\* iteration yields first).
SetMapping(mapping, hash) ==
    IF Cardinality(mapping) > MappSize
    THEN { (mapping \ { k }) \cup { hash } : k \in mapping }
    ELSE { mapping \cup { hash } }

\* hasMaxConnSize
HasMaxConnSize(connections) == Cardinality(connections) > ConnSize

\* getFunction: the handler and whether there is one.
GetFunction(routes, tmsg) == [f |-> routes[tmsg], ok |-> routes[tmsg] # "none"]

\* A read loop that never resets its counter.
CounterAfter_NoReset(ok, counter) == counter + 1

\* The read loop's counter after handleFunc returned ok.
CounterAfter(ok, counter) == IF ok THEN 0 ELSE counter + 1

\* node: the NodeT value.  conn: each socket, "new" until a peer dials or is
\* dialled, then "open", then "closed".  th: the threads (position, the
\* message a reader is at, its counter, the handler getFunction returned to
\* it, the arguments of the call a thread is in).  gh: the history the
\* claims speak about.
VARIABLES node, conn, th, gh

nodeVars == << node, conn, th, gh >>

pc == th.pc

NoArg == [c |-> 1, m |-> NoMsg, f |-> "sink"]

\* The node NewNode() returns, with the frames its peers will send and the
\* calls its program will make.
NodeWith(routes, frames, calls) ==
    /\ node = [mapping |-> {}, connections |-> {},
               handleRoutes |-> routes,
               mainMtx |-> Free, routeMtx |-> Free]
    /\ conn = [c \in Conns |-> "new"]
    /\ th = [pc |-> [t \in Threads |-> IF t = ListenerT THEN "l_accept"
                                       ELSE IF t = UserT THEN "u_idle" ELSE "off"],
             cur |-> [c \in Conns |-> NoMsg],
             counter |-> [c \in Conns |-> 0],
             got |-> [c \in Conns |-> "none"],
             arg |-> [t \in Threads |-> NoArg]]
    /\ gh = [frames |-> frames, calls |-> calls, bcast |-> {}, kept |-> {},
             late |-> [c \in Conns |-> FALSE],
             lateHandled |-> [m \in Msgs |-> 0],
             fails |-> [c \in Conns |-> 0],
             active |-> [c \in Conns |-> 0],
             completed |-> [c \in Conns |-> FALSE]]

NoRoutes == [h \in Heads |-> "none"]

NodeInit == NodeWith(NoRoutes, MaxRecv, MaxCalls)

allVars == << vars, nodeVars >>

\* ----------------------------------------------------------------- actions
\* One caller drives the chain: it issues a call when the previous one has
\* returned and its result has been taken.
NoCall == [op |-> "idle", in |-> <<>>, out |-> <<>>]
Idle == call.op = "idle"

Init ==
    \E priv \in Keys, txs \in TxLists(MaxTxs) \cup { << b >> : b \in BadTxs } :
        LET made == NewChain(priv, txs) IN
        /\ made # <<>>
        /\ blocks = made[1].blocks
        /\ length = made[1].length
        /\ capacity = made[1].cap
        /\ call = [op |-> "NewChain", in |-> << priv, txs >>, out |-> "ok"]
        /\ okAppends = 0
        /\ NodeInit

DoAppend ==
    /\ Idle
    /\ \E obj \in AppendInputs(Chain) :
        LET r == ChainAppend(Chain, obj) IN
        /\ r.err = "ok" => Len(blocks) < MaxChain
        /\ blocks' = r.chain.blocks
        /\ length' = r.chain.length
        /\ capacity' = r.chain.cap
        /\ call' = [op |-> "Append", in |-> Describe(obj), out |-> r.err]
        /\ okAppends' = IF r.err = "ok" THEN okAppends + 1 ELSE okAppends
        /\ UNCHANGED nodeVars

DoRange ==
    /\ Idle
    /\ \E x \in RangeArgs, y \in RangeArgs :
        /\ call' = [op |-> "Range", in |-> << x, y >>, out |-> ChainRange(Chain, x, y)]
        /\ UNCHANGED << blocks, length, capacity, okAppends, nodeVars >>

DoLength ==
    /\ Idle
    /\ call' = [op |-> "Length", in |-> <<>>, out |-> ChainLength(Chain)]
    /\ UNCHANGED << blocks, length, capacity, okAppends, nodeVars >>

DoLastHash ==
    /\ Idle
    /\ call' = [op |-> "LastHash", in |-> <<>>, out |-> ChainLastHash(Chain)]
    /\ UNCHANGED << blocks, length, capacity, okAppends, nodeVars >>

DoFind ==
    /\ Idle
    /\ \E hash \in Links(Chain) :
        /\ call' = [op |-> "Find", in |-> hash, out |-> ChainFind(Chain, hash)]
        /\ UNCHANGED << blocks, length, capacity, okAppends, nodeVars >>

DoIsValid ==
    /\ Idle
    /\ call' = [op |-> "IsValid", in |-> <<>>, out |-> ChainIsValid(Chain)]
    /\ UNCHANGED << blocks, length, capacity, okAppends, nodeVars >>

DoWrap ==
    /\ Idle
    /\ call' = [op |-> "Wrap", in |-> <<>>, out |-> ChainWrap(Chain)]
    /\ UNCHANGED << blocks, length, capacity, okAppends, nodeVars >>

DoLazyInterval ==
    /\ Idle
    /\ \E pub \in Keys :
        /\ call' = [op |-> "LazyInterval", in |-> pub, out |-> LazyInterval(Chain, pub)]
        /\ UNCHANGED << blocks, length, capacity, okAppends, nodeVars >>

DoSelectLazy ==
    /\ Idle
    /\ \E validators \in ListsUpTo(Candidates, NumKeys + 1) :
        /\ call' = [op |-> "SelectLazy", in |-> validators,
                    out |-> SelectLazy(Chain, validators)]
        /\ UNCHANGED << blocks, length, capacity, okAppends, nodeVars >>

\* The caller takes the result of the last call.
Return ==
    /\ ~Idle
    /\ call' = NoCall
    /\ UNCHANGED << blocks, length, capacity, okAppends, nodeVars >>

Next ==
    \/ Return
    \/ DoAppend
    \/ DoRange
    \/ DoLength
    \/ DoLastHash
    \/ DoFind
    \/ DoIsValid
    \/ DoWrap
    \/ DoLazyInterval
    \/ DoSelectLazy

\* ------------------------------------------------------------ step helpers
IsReader(t) == t \in Conns

\* Where a thread goes when the node method it called returns.
Back(t) == IF t = UserT THEN "u_idle" ELSE IF t = ListenerT THEN "l_accept" ELSE "r_ret"

\* The message a Broadcast of thread t is about: the caller's argument, or
\* the message the handler was invoked with.
MsgOf(t) == IF IsReader(t) THEN th.cur[t] ELSE th.arg[t].m

\* The connection a delConnection of thread t is about: the one handleConn
\* serves (its deferred call, or the conn its handler was given), or the
\* caller's argument.
ConnOf(t) == IF IsReader(t) THEN t ELSE th.arg[t].c

\* The socket Listen accepted or Connect dialled.
Dialled(t) == th.arg[t].c

\* The handler a Handle of thread t registers.
FuncOf(t) == th.arg[t].f

Goto(t, where) == [th EXCEPT !.pc[t] = where]

\* A thread returns from a node method and drops the arguments.
GoBack(t) == [th EXCEPT !.pc[t] = Back(t), !.arg[t] = NoArg]

\* The entries of the main-mutex helpers, and the position of a thread that
\* has locked the mutex at one of them.
Entries == { "b_set", "b_cs", "r_in", "r_set", "r_gf", "del", "disc", "max", "setc", "hset" }
Inside(at) ==
    CASE at = "b_set" -> "b_set2" [] at = "b_cs" -> "b_cs2" [] at = "r_in" -> "r_in2"
      [] at = "r_set" -> "r_set2" [] at = "r_gf" -> "r_gf2" [] at = "del" -> "del2"
      [] at = "disc" -> "disc2"
      [] at = "max" -> "max2" [] at = "setc" -> "setc2" [] at = "hset" -> "hset2"

\* mainMtx.Lock() of the helper a thread is about to run.
MainLock(t) ==
    /\ pc[t] \in Entries
    /\ node.mainMtx = Free
    /\ node' = [node EXCEPT !.mainMtx = t]
    /\ th' = Goto(t, Inside(pc[t]))
    /\ UNCHANGED << conn, gh, vars >>

\* The broadcast messages whose hash is still in the mapping.
StillKept(kept, mapping) == { k \in kept : MsgHash(k) \in mapping }

Min2(n) == IF n < 2 THEN n ELSE 2

\* -------------------------------------------------- Broadcast, Connections
\* Broadcast: node.setMapping(msg.Hash()).
BroadcastSetMapping(t) ==
    /\ pc[t] = Inside("b_set")
    /\ \E mp \in SetMapping(node.mapping, MsgHash(MsgOf(t))) :
        /\ node' = [node EXCEPT !.mapping = mp, !.mainMtx = Free]
        /\ gh' = [gh EXCEPT !.bcast = @ \cup { MsgOf(t) },
                            !.kept = StillKept(@, mp) \cup { MsgOf(t) },
                            !.late = [c \in Conns |-> @[c] /\ th.cur[c] # MsgOf(t)],
                            !.lateHandled[MsgOf(t)] = 0]
    /\ th' = Goto(t, "b_cs")
    /\ UNCHANGED << conn, vars >>

\* node.Connections(); in Broadcast, one writer thread per peer, return.
BroadcastConnections(t) ==
    /\ pc[t] = Inside("b_cs")
    /\ node' = [node EXCEPT !.mainMtx = Free]
    /\ th' = GoBack(t)
    /\ UNCHANGED << conn, gh, vars >>

\* ------------------------------------------------------------- handleConn
\* ReadMessage(conn): nil on a closed socket; on an open one the next frame,
\* nil when it does not decode, else the message.
ReadMessage(c) ==
    IF conn[c] = "open"
    THEN IF gh.frames > 0 THEN Msgs \cup { NoMsg } ELSE {}
    ELSE { NoMsg }

\* Loop head: leave at RetrySize failures, else read; nil counts a failure.
ReaderTop(c) ==
    /\ pc[c] = "r_top"
    /\ IF th.counter[c] = RetrySize
       THEN /\ th' = Goto(c, "del")
            /\ UNCHANGED gh
       ELSE \E m \in ReadMessage(c) :
            /\ th' = IF m = NoMsg
                     THEN [th EXCEPT !.counter[c] = @ + 1]
                     ELSE [th EXCEPT !.pc[c] = "r_in", !.cur[c] = m]
            /\ gh' = [gh EXCEPT !.frames = IF conn[c] = "open" THEN @ - 1 ELSE @,
                                !.fails[c] = IF m = NoMsg THEN @ + 1 ELSE @,
                                !.late[c] = m \in gh.bcast]
    /\ UNCHANGED << node, conn, vars >>

\* inMapping(hash): a seen message is dropped.
ReaderInMapping(c) ==
    /\ pc[c] = Inside("r_in")
    /\ node' = [node EXCEPT !.mainMtx = Free]
    /\ IF InMapping(node.mapping, MsgHash(th.cur[c]))
       THEN /\ th' = [th EXCEPT !.pc[c] = "r_top", !.cur[c] = NoMsg]
            /\ gh' = [gh EXCEPT !.late[c] = FALSE]
       ELSE /\ th' = Goto(c, "r_set")
            /\ UNCHANGED gh
    /\ UNCHANGED << conn, vars >>

\* setMapping that returns with the main mutex still locked.
ReaderSetMapping_NoUnlock(c) ==
    /\ pc[c] = Inside("r_set")
    /\ \E mp \in SetMapping(node.mapping, MsgHash(th.cur[c])) :
        /\ node' = [node EXCEPT !.mapping = mp, !.mainMtx = c]
        /\ gh' = [gh EXCEPT !.kept = StillKept(@, mp)]
    /\ th' = Goto(c, "r_hf")
    /\ UNCHANGED << conn, vars >>

\* setMapping(hash): evict if over the size, insert.
ReaderSetMapping(c) ==
    /\ pc[c] = Inside("r_set")
    /\ \E mp \in SetMapping(node.mapping, MsgHash(th.cur[c])) :
        /\ node' = [node EXCEPT !.mapping = mp, !.mainMtx = Free]
        /\ gh' = [gh EXCEPT !.kept = StillKept(@, mp)]
    /\ th' = Goto(c, "r_hf")
    /\ UNCHANGED << conn, vars >>

\* handleFunc that goes on without the route mutex.
HandleFuncLock_None(c) ==
    /\ pc[c] = "r_hf"
    /\ th' = Goto(c, "r_gf")
    /\ UNCHANGED << node, conn, gh, vars >>

\* handleFunc: routeMtx.Lock().
HandleFuncLock(c) ==
    /\ pc[c] = "r_hf"
    /\ node.routeMtx = Free
    /\ node' = [node EXCEPT !.routeMtx = c]
    /\ th' = Goto(c, "r_gf")
    /\ UNCHANGED << conn, gh, vars >>

\* getFunction that returns with the main mutex still locked.
GetFunctionBody_NoUnlock(c) ==
    /\ pc[c] = Inside("r_gf")
    /\ th' = [th EXCEPT !.pc[c] = "r_got",
                        !.got[c] = GetFunction(node.handleRoutes, MsgHead(th.cur[c])).f]
    /\ UNCHANGED << node, conn, gh, vars >>

\* handleFunc: getFunction looks up the handler of msg.Head() and unlocks.
GetFunctionBody(c) ==
    /\ pc[c] = Inside("r_gf")
    /\ node' = [node EXCEPT !.mainMtx = Free]
    /\ th' = [th EXCEPT !.pc[c] = "r_got",
                        !.got[c] = GetFunction(node.handleRoutes, MsgHead(th.cur[c])).f]
    /\ UNCHANGED << conn, gh, vars >>

\* handleFunc returned false: the read loop counts a failure and goes on.
DispatchFailed(c) ==
    /\ th' = [th EXCEPT !.pc[c] = "r_top", !.cur[c] = NoMsg, !.got[c] = "none",
                        !.counter[c] = CounterAfter(FALSE, @)]
    /\ gh' = [gh EXCEPT !.fails[c] = @ + 1, !.late[c] = FALSE]

\* The handler is entered: the history notes the invocation.
Invoked(c) ==
    [gh EXCEPT !.active[c] = @ + 1,
               !.lateHandled[th.cur[c]] = IF gh.late[c] THEN Min2(@ + 1) ELSE @]

\* handleFunc that starts the handler in a thread of its own and returns.
HandleFuncCall_Async(c) ==
    /\ pc[c] = "r_got"
    /\ node' = [node EXCEPT !.routeMtx = Free]
    /\ IF th.got[c] = "none"
       THEN DispatchFailed(c)
       ELSE /\ th' = [th EXCEPT !.pc[c] = "r_top", !.cur[c] = NoMsg,
                                !.got[c] = "none", !.counter[c] = 0]
            /\ gh' = [Invoked(c) EXCEPT !.fails[c] = 0, !.late[c] = FALSE]
    /\ UNCHANGED << conn, vars >>

\* handleFunc after getFunction: without a handler it unlocks the route
\* mutex and returns false; with one it calls f(node, conn, msg).
HandleFuncCall(c) ==
    /\ pc[c] = "r_got"
    /\ IF th.got[c] = "none"
       THEN /\ node' = [node EXCEPT !.routeMtx = Free]
            /\ DispatchFailed(c)
       ELSE /\ node' = node
            /\ th' = [th EXCEPT !.pc[c] = HandlerEntry(th.got[c]), !.got[c] = "none"]
            /\ gh' = Invoked(c)
    /\ UNCHANGED << conn, vars >>

\* The handler returns, handleFunc unlocks the route mutex and returns true,
\* the read loop resets its counter.
HandlerReturn(c) ==
    /\ pc[c] = "r_ret"
    /\ node' = [node EXCEPT !.routeMtx = Free]
    /\ th' = [th EXCEPT !.pc[c] = "r_top", !.cur[c] = NoMsg,
                        !.counter[c] = CounterAfter(TRUE, @)]
    /\ gh' = [gh EXCEPT !.fails[c] = 0, !.late[c] = FALSE,
                        !.active[c] = @ - 1, !.completed[c] = TRUE]
    /\ UNCHANGED << conn, vars >>

\* ----------------------------------------------------------- delConnection
\* delConnection(conn): delete and close; handleConn ends after its deferred
\* call, Disconnect returns.
DelConnection(t) ==
    /\ pc[t] \in { Inside("del"), Inside("disc") }
    /\ node' = [node EXCEPT !.connections = @ \ { ConnOf(t) }, !.mainMtx = Free]
    /\ conn' = [conn EXCEPT ![ConnOf(t)] = "closed"]
    /\ th' = IF pc[t] = Inside("del") THEN Goto(t, "done") ELSE GoBack(t)
    /\ UNCHANGED << gh, vars >>

\* ------------------------------------------- hasMaxConnSize, setConnection
\* The socket the system hands out next.
Fresh == { c \in Conns : conn[c] = "new" /\ \A d \in Conns : d < c => conn[d] # "new" }

\* hasMaxConnSize(); on true Listen goes on to close the socket it accepted
\* and Connect returns nil.
HasMaxConn(t) ==
    /\ pc[t] = Inside("max")
    /\ node' = [node EXCEPT !.mainMtx = Free]
    /\ th' = IF HasMaxConnSize(node.connections)
             THEN IF t = ListenerT THEN Goto(t, "l_close") ELSE GoBack(t)
             ELSE Goto(t, IF t = ListenerT THEN "l_who" ELSE "dial")
    /\ UNCHANGED << conn, gh, vars >>

\* setConnection(conn)
SetConnection(t) ==
    /\ pc[t] = Inside("setc")
    /\ node' = [node EXCEPT !.connections = @ \cup { Dialled(t) }, !.mainMtx = Free]
    /\ th' = Goto(t, "spawn")
    /\ UNCHANGED << conn, gh, vars >>

\* go node.handleConn(conn): Listen goes back to Accept, Connect returns.
StartReader(t) ==
    /\ pc[t] = "spawn"
    /\ th' = [GoBack(t) EXCEPT !.pc[Dialled(t)] = "r_top"]
    /\ UNCHANGED << node, conn, gh, vars >>

\* ---------------------------------------------------------------- Listen
\* listen.Accept() returns the socket of a new peer.
ListenAccept ==
    /\ pc[ListenerT] = "l_accept"
    /\ \E c \in Fresh :
        /\ conn' = [conn EXCEPT ![c] = "open"]
        /\ th' = [th EXCEPT !.pc[ListenerT] = "max", !.arg[ListenerT].c = c]
    /\ UNCHANGED << node, gh, vars >>

Roles == { "IsNode", "IsClient", "other" }

\* conn.Read(whoIs) and the switch: a node is registered and then read, a
\* client is read without being registered, anything else is closed.
ListenWhoIs ==
    /\ pc[ListenerT] = "l_who"
    /\ \E role \in Roles :
        th' = Goto(ListenerT, CASE role = "IsNode" -> "setc"
                                [] role = "IsClient" -> "spawn"
                                [] OTHER -> "l_close")
    /\ UNCHANGED << node, conn, gh, vars >>

\* conn.Close() and back to Accept.
ListenClose ==
    /\ pc[ListenerT] = "l_close"
    /\ conn' = [conn EXCEPT ![th.arg[ListenerT].c] = "closed"]
    /\ th' = GoBack(ListenerT)
    /\ UNCHANGED << node, gh, vars >>

\* ------------------------------------------------------- the node's caller
CanCall == pc[UserT] = "u_idle" /\ gh.calls > 0

Called(where, arg) ==
    /\ th' = [th EXCEPT !.pc[UserT] = where, !.arg[UserT] = arg]
    /\ gh' = [gh EXCEPT !.calls = @ - 1]
    /\ UNCHANGED << node, conn, vars >>

\* Broadcast(msg)
CallBroadcast == CanCall /\ \E m \in Msgs : Called("b_set", [NoArg EXCEPT !.m = m])

\* Connect(address)
CallConnect == CanCall /\ Called("max", NoArg)

\* Connect: net.Dial fails, or gives a socket on which IsNode is written.
ConnectDial(t) ==
    /\ pc[t] = "dial"
    /\ \/ /\ th' = GoBack(t)
          /\ conn' = conn
       \/ \E c \in Fresh :
          /\ conn' = [conn EXCEPT ![c] = "open"]
          /\ th' = [th EXCEPT !.pc[t] = "setc", !.arg[t].c = c]
    /\ UNCHANGED << node, gh, vars >>

\* Disconnect(conn) of a connection the caller has.
CallDisconnect ==
    CanCall /\ \E c \in Conns : conn[c] # "new" /\ Called("disc", [NoArg EXCEPT !.c = c])

\* Handle(tmsg, handle)
CallHandle == CanCall /\ \E f \in Handlers : Called("hset", [NoArg EXCEPT !.f = f])

\* setFunction(tmsg, handle)
SetFunction(t) ==
    /\ pc[t] = Inside("hset")
    /\ node' = [node EXCEPT !.handleRoutes[Handled] = FuncOf(t), !.mainMtx = Free]
    /\ th' = GoBack(t)
    /\ UNCHANGED << conn, gh, vars >>

\* Mutex().Lock() by the caller, which goes on with the lock held and can
\* call any method of the node.
CallMutexLock ==
    /\ CanCall
    /\ node.routeMtx = Free
    /\ node' = [node EXCEPT !.routeMtx = UserT]
    /\ gh' = [gh EXCEPT !.calls = @ - 1]
    /\ UNCHANGED << conn, th, vars >>

\* Mutex().Unlock() by the caller, between two calls.
CallMutexUnlock ==
    /\ pc[UserT] = "u_idle"
    /\ node.routeMtx = UserT
    /\ node' = [node EXCEPT !.routeMtx = Free]
    /\ UNCHANGED << conn, th, gh, vars >>

\* ------------------------------------------------------------------- next
\* The readers, the listener and a program that only broadcasts.
GossipStep ==
    \/ \E t \in Conns \cup { UserT } : BroadcastSetMapping(t)
    \/ \E t \in Conns \cup { UserT } : BroadcastConnections(t)
    \/ \E c \in Conns : ReaderTop(c)
    \/ \E c \in Conns : ReaderInMapping(c)
    \/ \E c \in Conns : ReaderSetMapping(c)
    \/ \E c \in Conns : HandleFuncLock(c)
    \/ \E t \in Threads : MainLock(t)
    \/ \E c \in Conns : GetFunctionBody(c)
    \/ \E c \in Conns : HandleFuncCall(c)
    \/ \E c \in Conns : HandlerReturn(c)
    \/ \E t \in Conns \cup { UserT } : DelConnection(t)
    \/ \E t \in Threads : HasMaxConn(t)
    \/ \E t \in Threads : SetConnection(t)
    \/ \E t \in Threads : StartReader(t)
    \/ ListenAccept
    \/ ListenWhoIs
    \/ ListenClose
    \/ CallBroadcast

\* The same with a program that calls every method.
NodeStep ==
    \/ GossipStep
    \/ CallConnect
    \/ \E t \in Conns \cup { UserT } : ConnectDial(t)
    \/ CallDisconnect
    \/ CallHandle
    \/ \E t \in Conns \cup { UserT } : SetFunction(t)
    \/ CallMutexLock
    \/ CallMutexUnlock

\* --------------------------------------------------------- specifications
\* The chain of one process, with the node at rest.
Spec == Init /\ [][Next]_allVars

\* The node with its listener, its readers and its caller; the chain its
\* process owns is at rest.
NodeStart ==
    /\ blocks = NewChain(1, << >>)[1].blocks
    /\ length = NewChain(1, << >>)[1].length
    /\ capacity = NewChain(1, << >>)[1].cap
    /\ call = NoCall
    /\ okAppends = 0
    /\ NodeInit

NodeSpec == NodeStart /\ [][NodeStep]_allVars

\* The node of a program that registered a handler, then only broadcasts:
\* it has one call left, and its peers send more frames.
GossipStart ==
    /\ blocks = NewChain(1, << >>)[1].blocks
    /\ length = NewChain(1, << >>)[1].length
    /\ capacity = NewChain(1, << >>)[1].cap
    /\ call = NoCall
    /\ okAppends = 0
    /\ NodeWith([NoRoutes EXCEPT ![Handled] = "sink"], MaxGossip, MaxCalls - 1)

GossipSpec == GossipStart /\ [][GossipStep]_allVars

\* ------------------------------------------------------------------ claims
IsPrefix(s, t) == Len(s) <= Len(t) /\ \A i \in 1..Len(s) : s[i] = t[i]

ChainUnchanged == blocks' = blocks /\ length' = length

\* The hash of the last stored block.
TailHash == BlockHash(blocks[Len(blocks)])

\* C1: every chain made by NewChain and grown by accepted Appends reports
\* itself valid: each IsValid() call returns true.
C1_IsValidReturnsTrue == call.op = "IsValid" => call.out = TRUE

\* C2: Length() is the number of stored blocks, and that number is one more
\* than the number of Append calls that returned no error.
C2_LengthCountsBlocks ==
    /\ ChainLength(Chain) = Len(blocks)
    /\ ChainLength(Chain) = okAppends + 1
    /\ call.op = "Length" => call.out = Len(blocks)

\* C2 witness: two blocks were appended and a later Append was rejected.
C2_Witness ==
    /\ okAppends = 2
    /\ call.op = "Append"
    /\ call.out = "relation is invalid"

\* C3: the block at index 0 links to ChainID and every later block links to
\* the hash of the block before it.
C3_BackLinks ==
    /\ BlockLastHash(blocks[1]) = ChainID
    /\ \A i \in 2..Len(blocks) :
           BlockLastHash(blocks[i]) = BlockHash(blocks[i - 1])

\* C3 witness: a chain of three blocks, the last one just appended.
C3_Witness == Len(blocks) = 3 /\ call.op = "Append" /\ call.out = "ok"

\* C4: Append of a valid block whose LastHash is not the chain's LastHash()
\* returns the relation-invalid error and changes neither blocks nor length.
C4_RelationRejected ==
    [][ ( /\ call'.op = "Append"
          /\ ~call'.in.null
          /\ call'.in.valid
          /\ call'.in.link # TailHash )
        => ( call'.out = "relation is invalid" /\ ChainUnchanged ) ]_vars

\* C4 witness: a valid block built on the genesis hash was offered to a chain
\* whose tail is a later block, and was refused.
C4_Witness ==
    /\ call.op = "Append"
    /\ call.in.valid
    /\ Len(blocks) >= 2
    /\ call.in.link = BlockHash(blocks[1])
    /\ call.out = "relation is invalid"

\* C5: Append of a null block returns the null error as a value.
C5_NullReturnsError ==
    (call.op = "Append" /\ call.in.null) => call.out = "block is null"

\* C6: every stored block is valid, and Append of a block that is not valid
\* returns the invalid error and changes nothing, whatever the block links to.
C6_OnlyValidBlocks ==
    /\ [](\A i \in 1..Len(blocks) : BlockIsValid(blocks[i]))
    /\ [][ ( call'.op = "Append" /\ ~call'.in.null /\ ~call'.in.valid )
           => ( call'.out = "block is invalid" /\ ChainUnchanged ) ]_vars

\* C6 witness: a block that is not valid but links to the tail was refused.
C6_Witness ==
    /\ call.op = "Append"
    /\ ~call.in.null
    /\ ~call.in.valid
    /\ call.in.link = TailHash
    /\ call.out = "block is invalid"

\* C7: across every step the old block sequence is a prefix of the new one;
\* it changes only in an Append that returned no error, which adds one block.
C7_AppendOnly ==
    [][ /\ IsPrefix(blocks, blocks')
        /\ blocks' # blocks =>
             ( /\ call'.op = "Append"
               /\ call'.out = "ok"
               /\ Len(blocks') = Len(blocks) + 1 ) ]_vars

\* C7 witness: SelectLazy has run on a chain that Append had grown.
C7_Witness == call.op = "SelectLazy" /\ call.out.kind = "ok" /\ Len(blocks) = 3

\* C8: Range(x, y) returns the blocks x..y-1 when 0 <= x <= y <= length and
\* fails, returning no blocks, for every other (x, y).
C8_RangeChecksBounds ==
    call.op = "Range" =>
        LET x == call.in[1]
            y == call.in[2]
        IN  IF 0 <= x /\ x <= y /\ y <= length
            THEN /\ call.out.kind = "ok"
                 /\ call.out.val = [i \in 1..(y - x) |-> << blocks[x + i] >>]
            ELSE call.out.kind = "panic"

\* The positions, counted back from the tail, of the blocks that name pub as
\* validator or as the validator of one of their transactions.
Names(b, pub) ==
    \/ BlockValidator(b) = pub
    \/ \E i \in 1..Len(b.txs) : TxValidator(b.txs[i]) = pub

SeenAt(pub) == { d \in 0..(Len(blocks) - 1) : Names(blocks[Len(blocks) - d], pub) }

\* C9: LazyInterval(pub) returns, and what it returns is the least distance
\* from the tail of a block naming pub, or -1 when no block names it.
C9_LazyIntervalIsDistance ==
    call.op = "LazyInterval" =>
        /\ call.out # NoReturn
        /\ IF SeenAt(call.in) = {} THEN call.out = -1
           ELSE /\ call.out \in SeenAt(call.in)
                /\ \A d \in SeenAt(call.in) : call.out <= d

\* C9 witness: the tail carries no transaction and does not name pub, the
\* block before it names pub only in a transaction, and the answer is 1.
C9_Witness ==
    /\ call.op = "LazyInterval"
    /\ call.out = 1
    /\ Len(blocks) >= 2
    /\ BlockLength(blocks[Len(blocks)]) = 0
    /\ BlockValidator(blocks[Len(blocks) - 1]) # call.in

\* C10: SelectLazy on a list of candidates returns one of them whose
\* LazyInterval is at least that of every other, also when all are -1.
C10_SelectsLaziest ==
    (call.op = "SelectLazy" /\ call.in # <<>>) =>
        /\ call.out.kind = "ok"
        /\ \E i \in 1..Len(call.in) : call.in[i] = call.out.val
        /\ \A i \in 1..Len(call.in) :
               LazyInterval(Chain, call.out.val) >= LazyInterval(Chain, call.in[i])

\* The largest LazyInterval among the candidates of the last SelectLazy call,
\* and the candidates that have it, in the order they were listed.
MaxInterval(vs) ==
    CHOOSE m \in { LazyInterval(Chain, vs[i]) : i \in 1..Len(vs) } :
        \A i \in 1..Len(vs) : LazyInterval(Chain, vs[i]) <= m

Tied(vs) == SelectSeq(vs, LAMBDA p : LazyInterval(Chain, p) = MaxInterval(vs))

\* The element at index r (from 0) of `list` sorted ascending by Address:
\* fewer than r+1 elements lie below it and at least r+1 lie at or below it.
AtSortedIndex(list, r, p) ==
    /\ \E i \in 1..Len(list) : list[i] = p
    /\ Cardinality({ i \in 1..Len(list) : Address(list[i]) < Address(p) }) <= r
    /\ Cardinality({ i \in 1..Len(list) : Address(list[i]) <= Address(p) }) > r

\* C11: when two or more candidates share the maximal LazyInterval,
\* SelectLazy returns the tied candidate at index u64(load(LastHash())) mod
\* (number tied) of the tied candidates sorted ascending by Address.
C11_TieBreakByTailHash ==
    (call.op = "SelectLazy" /\ call.in # <<>> /\ Len(Tied(call.in)) >= 2) =>
        /\ call.out.kind = "ok"
        /\ AtSortedIndex(Tied(call.in),
                         BytesToInt(TailHash, 0) % Len(Tied(call.in)),
                         call.out.val)

\* The reorderings of a list.
Reorderings(list) ==
    { [i \in 1..Len(list) |-> list[f[i]]] :
        f \in { g \in [1..Len(list) -> 1..Len(list)] :
                  \A i \in 1..Len(list), j \in 1..Len(list) : g[i] = g[j] => i = j } }

\* C12: SelectLazy on the same chain and the same validators, listed in any
\* other order, ends the same way with the same public key.
C12_OrderIndependent ==
    call.op = "SelectLazy" =>
        \A other \in Reorderings(call.in) : SelectLazy(Chain, other) = call.out

\* C12 witness: two different keys are tied at the tail, they were listed
\* with the larger address first, and one of them was returned.
C12_Witness ==
    /\ call.op = "SelectLazy"
    /\ Len(call.in) = 2
    /\ call.in[1] # call.in[2]
    /\ Address(call.in[1]) > Address(call.in[2])
    /\ Len(Tied(call.in)) = 2
    /\ call.out.kind = "ok"

\* ------------------------------------------------------------ node claims
\* C13 (as stated): after the node called Broadcast(m), the copies of m that
\* arrive afterwards invoke the handler of m.Head at most once.
C13_HandledAtMostOnce == \A m \in Msgs : gh.lateHandled[m] <= 1

\* C13 (amended): as long as the hash of m has not been evicted from the
\* mapping since the node called Broadcast(m), no copy of m that arrived
\* after that call has invoked the handler.
C13_KeptIsNotHandled == \A m \in gh.kept : gh.lateHandled[m] = 0

\* A copy of a broadcast message whose hash is still kept has arrived and is
\* at the seen-set lookup.
C13_Witness ==
    \E c \in Conns :
        /\ pc[c] = Inside("r_in")
        /\ gh.late[c]
        /\ th.cur[c] \in gh.kept
        /\ MsgHead(th.cur[c]) = Handled

\* C14: the number of registered connections never exceeds ConnSize.
C14_ConnectionsBounded == Cardinality(node.connections) <= ConnSize

\* The consecutive failures of the read loop of c.
Failures(c) == gh.fails[c]
Exited(c) == pc[c] \in { "del", "del2", "done" }

\* C15: the read loop's counter is the number of failures since the last
\* dispatched message; at RetrySize of them the loop reads no more and exits,
\* after which the connection is closed and not registered; the loop exits
\* at no smaller number.
C15_RetryExhaustion ==
    /\ [](\A c \in Conns :
            /\ th.counter[c] = Failures(c)
            /\ Failures(c) <= RetrySize
            /\ Exited(c) => Failures(c) = RetrySize
            /\ Failures(c) = RetrySize => pc[c] = "r_top" \/ Exited(c)
            /\ pc[c] = "done" => c \notin node.connections /\ conn[c] = "closed")
    /\ [][\A c \in Conns :
            Failures(c) = RetrySize =>
                /\ Failures(c)' = RetrySize
                /\ pc[c]' = pc[c] \/ Exited(c)']_allVars

\* A read loop that dispatched a message and later left at RetrySize
\* failures.
C15_Witness == \E c \in Conns : pc[c] = "done" /\ gh.completed[c]

\* The connections whose handler invocation is running.
Running == { c \in Conns : gh.active[c] > 0 }

\* C16: at most one handler runs at a time, and none while the caller holds
\* the lock Mutex() returns.
C16_HandlersExclusive ==
    /\ Cardinality(Running) <= 1
    /\ node.routeMtx = UserT => Running = {}

\* A handler runs while the reader of another connection is at handleFunc
\* with a message to dispatch.
C16_Witness ==
    \E c, d \in Conns :
        /\ c # d
        /\ gh.active[c] = 1
        /\ pc[d] = "r_hf"
        /\ node.handleRoutes[MsgHead(th.cur[d])] # "none"

\* C17: on one connection a handler invocation starts only when the
\* invocation for the message received before it has returned, and no message
\* is read while one runs.
C17_DispatchInReceiveOrder ==
    [][\A c \in Conns :
         /\ gh.active'[c] > gh.active[c] => gh.active[c] = 0
         /\ (th.cur'[c] # th.cur[c] /\ th.cur'[c] # NoMsg) => gh.active[c] = 0]_allVars

\* The second handler invocation on one connection.
C17_Witness == \E c \in Conns : gh.active[c] = 1 /\ gh.completed[c]

\* C18: the mapping never holds more than MappSize+1 hashes, and after a
\* setMapping that changed it, at most MappSize.
C18_MappingBounded ==
    /\ [](Cardinality(node.mapping) <= MappSize + 1)
    /\ [][node.mapping' # node.mapping => Cardinality(node.mapping') <= MappSize]_allVars

\* C19 (as stated): no thread holds the main mutex and the route mutex at the
\* same time.
C19_NeverBothHeld == \A t \in Threads : ~(node.mainMtx = t /\ node.routeMtx = t)

\* The bodies of the main-mutex helpers of the node's methods (Broadcast,
\* Connections, Handle, Connect, Disconnect).
MethodHelpers == { Inside(e) : e \in { "b_set", "b_cs", "hset", "max", "setc", "disc" } }

\* C19 (amended): a thread holds both only inside the body of a main-mutex
\* helper, and it is a reader inside getFunction or a helper of the node
\* method its handler called, or the caller inside a helper of a node method
\* it called with the lock of Mutex() held; it took the route mutex first:
\* no thread locks the route mutex while it holds the main mutex.
C19_RouteIsOuter ==
    /\ [](\A t \in Threads :
            (node.mainMtx = t /\ node.routeMtx = t) =>
                \/ IsReader(t) /\ pc[t] \in MethodHelpers \cup { Inside("r_gf") }
                \/ t = UserT /\ pc[t] \in MethodHelpers)
    /\ [][\A t \in Threads :
            (node.routeMtx' = t /\ node.routeMtx # t) => node.mainMtx # t]_allVars

\* The caller holds the lock of Mutex() and is inside setFunction with the
\* main mutex, while a reader waits for the route mutex at handleFunc.
C19_Witness ==
    /\ node.mainMtx = UserT
    /\ node.routeMtx = UserT
    /\ pc[UserT] = Inside("hset")
    /\ \E c \in Conns : pc[c] = "r_hf"

\* What a thread waits for.
WaitsMain(t) == pc[t] \in Entries
WaitsRoute(t) == pc[t] = "r_hf"

\* C20: the route mutex is the outer lock: a thread that requests the route
\* mutex holds no mutex, the holder of the main mutex is inside a helper body
\* (which ends without any lock), and so whoever waits for a mutex waits for
\* a thread that can go on: the holder of the route mutex waits at most for
\* the main mutex.
C20_NoDeadlock ==
    /\ \A t \in Threads : WaitsRoute(t) => node.mainMtx # t /\ node.routeMtx # t
    /\ node.mainMtx # Free => pc[node.mainMtx] \in { Inside(e) : e \in Entries }
    /\ node.routeMtx # Free => ~WaitsRoute(node.routeMtx)
    /\ \A t \in Threads : WaitsMain(t) => node.mainMtx # t

\* A handler that relays waits for the main mutex, held by another thread
\* inside a helper, while a third thread waits for the route mutex.
C20_Witness ==
    \E c, d \in Conns :
        /\ c # d
        /\ node.routeMtx = c
        /\ pc[c] = "b_set"
        /\ node.mainMtx \notin { Free, c }
        /\ WaitsRoute(d)

====
